---- MODULE Spec2Model ----
(***************************************************************************)
(* Model of ham/genome.py: the Genome base class (add_gene, set_taxon),    *)
(* AncestralGenome (lazy ancestral clustering, gene count) and             *)
(* ExtantGenome (gene count with optional singleton exclusion).            *)
(*                                                                         *)
(* Every action is one complete method call.  The variable `call` holds    *)
(* the last call (method, receiver, argument, outcome, returned value) and *)
(* `pre` holds the fields of all objects as they were when it was entered. *)
(* `added` counts the add_gene calls that returned normally, and `history` *)
(* remembers, for an ancestral genome, the genes it had when its           *)
(* clustering was first asked for and whether a call has returned it.      *)
(*                                                                         *)
(* SpecThreads runs get_ancestral_clustering in several threads on one     *)
(* genome, one step per statement; `threads` holds each thread's position  *)
(* and `mode` says whether the callers serialize their calls by a lock.    *)
(***************************************************************************)
EXTENDS Integers, Sequences, FiniteSets, TLC

VARIABLES genes, taxon, genome, ancestral_clustering, allocs, added, history, call, pre,
          mode, threads

vars == <<genes, taxon, genome, ancestral_clustering, allocs, added, history, call, pre,
          mode, threads>>

----------------------------------------------------------------------------
(* Bounds *)

\* most genes attached over all genomes
MaxGenes == 3

\* most dict objects ever created by get_ancestral_clustering
MaxAllocs == 2

----------------------------------------------------------------------------
(* The objects of the heap.  An object is named by its identity. *)

None == "None"

AncestralGenomes == {"anc"}
ExtantGenomes == {"ext"}
Genomes == AncestralGenomes \cup ExtantGenomes

\* instances of (subclasses of) abstractgene.AbstractGene
GeneObjs == {"h1", "h2"}

\* instances of ete3.coretype.tree.TreeNode
Nodes == {"n1", "n2"}

\* what a node holds (its name): two node objects alike in value
NodeName == [n \in Nodes |-> "A"]

\* everything a caller can pass: genes, nodes and None
Objects == GeneObjs \cup Nodes \cup {None}

\* isinstance(gene, abstractgene.AbstractGene)
IsAbstractGene(x) == x \in GeneObjs

\* isinstance(taxon, ete3.coretype.tree.TreeNode)
IsTreeNode(x) == x \in Nodes

----------------------------------------------------------------------------
(* Collaborators on the gene side *)

\* gene.set_genome(genome): writes the gene's back-reference
set_genome(backrefs, gene, g) == [backrefs EXCEPT ![gene] = g]

\* hog.get_all_descendant_genes(): the extant genes a HOG subtends
get_all_descendant_genes(hog) == IF hog = "h1" THEN <<"e1", "e2">> ELSE <<"e3">>

Range(seq) == {seq[i] : i \in 1..Len(seq)}

----------------------------------------------------------------------------
(* dict objects: id 0 stands for None, a dict has id >= 1 and a map *)

NoDict == [id |-> 0, map |-> [k \in {} |-> <<>>]]

NewDict(n) == [id |-> n, map |-> [k \in {} |-> <<>>]]

\* d[key] = value
DictSet(d, key, value) ==
    [d EXCEPT !.map = [k \in (DOMAIN d.map) \cup {key} |->
                          IF k = key THEN value ELSE d.map[k]]]

IsNone(d) == d.id = 0

----------------------------------------------------------------------------
(* Genome.set_taxon *)

\* a comparison of what the nodes hold instead of which objects they are
NodeNeByValue(a, b) == NodeName[a] # NodeName[b]

\* taxon != self.taxon: TreeNode defines no __eq__, so != is object identity
NodeNe(a, b) == a # b

\* a guard that refuses every call on a bound genome
TaxonConflictWheneverBound(cur, new) == cur # None

\* a guard that refuses nothing
TaxonConflictNever(cur, new) == FALSE

\* a guard that compares what the nodes hold
TaxonConflictByValue(cur, new) == cur # None /\ NodeNeByValue(new, cur)

\* the guard of the raise at line 65
TaxonConflict(cur, new) == cur # None /\ NodeNe(new, cur)

\* a set_taxon that looks for a conflict before it checks the type
SetTaxonOutcomeConflictFirst(cur, new) ==
    IF cur # None /\ new # cur THEN "EvolutionaryConceptError"
    ELSE IF ~IsTreeNode(new) THEN "TypeError"
    ELSE "ok"

\* the exception set_taxon(new) ends with on a genome whose taxon is cur
SetTaxonOutcome(cur, new) ==
    IF ~IsTreeNode(new) THEN "TypeError"
    ELSE IF TaxonConflict(cur, new) THEN "EvolutionaryConceptError"
    ELSE "ok"

----------------------------------------------------------------------------
(* Genome.add_gene *)

\* an append made before the type check
AddGeneGenesAppendFirst(gs, gene) == Append(gs, gene)

\* an insertion at the front instead of an append
AddGeneGenesPrepend(gs, gene) ==
    IF ~IsAbstractGene(gene) THEN gs ELSE <<gene>> \o gs

\* self.genes after add_gene(gene)
AddGeneGenes(gs, gene) ==
    IF ~IsAbstractGene(gene) THEN gs ELSE Append(gs, gene)

\* the genes' back-references after g.add_gene(gene)
AddGeneBackrefs(backrefs, g, gene) ==
    IF ~IsAbstractGene(gene) THEN backrefs ELSE set_genome(backrefs, gene, g)

AddGeneOutcome(gene) == IF ~IsAbstractGene(gene) THEN "TypeError" ELSE "ok"

----------------------------------------------------------------------------
(* get_number_genes *)

\* a count of the distinct genes instead of the list's length
AncestralGetNumberGenesDistinct(gs) == Cardinality({gs[i] : i \in 1..Len(gs)})

\* AncestralGenome.get_number_genes
AncestralGetNumberGenes(gs) == Len(gs)

\* a loop counting the singletons instead of the others
RECURSIVE CountSingleton(_, _, _)
CountSingleton(gs, singletons, nbr) ==
    IF gs = <<>> THEN nbr
    ELSE CountSingleton(Tail(gs), singletons,
                        IF singletons[Head(gs)] THEN nbr + 1 ELSE nbr)

\* the loop of lines 143-147
RECURSIVE CountNonSingleton(_, _, _)
CountNonSingleton(gs, singletons, nbr) ==
    IF gs = <<>> THEN nbr
    ELSE CountNonSingleton(Tail(gs), singletons,
                           IF ~singletons[Head(gs)] THEN nbr + 1 ELSE nbr)

\* ExtantGenome.get_number_genes(singleton)
ExtantGetNumberGenes(gs, singleton, singletons) ==
    IF singleton THEN Len(gs) ELSE CountNonSingleton(gs, singletons, 0)

----------------------------------------------------------------------------
(* AncestralGenome.get_ancestral_clustering *)

\* a loop that stops after the first HOG
PopulateFirstOnly(d, hogs) ==
    IF hogs = <<>> THEN d
    ELSE DictSet(d, Head(hogs), get_all_descendant_genes(Head(hogs)))

\* the loop of lines 104-105 over the HOGs hogs, none of whose queries raises
RECURSIVE Populate(_, _)
Populate(d, hogs) ==
    IF hogs = <<>> THEN d
    ELSE Populate(DictSet(d, Head(hogs), get_all_descendant_genes(Head(hogs))),
                  Tail(hogs))

\* a getter that computes on every call
MustComputeAlways(cache) == TRUE

\* does the call compute (line 102)
MustCompute(cache) == IsNone(cache)

\* the cache after a call in which the query of the failAt-th HOG raises
\* (failAt = 0: no query raises); n is the id of the dict line 103 creates
ClusteringCache(cache, gs, failAt, n) ==
    IF ~MustCompute(cache) THEN cache
    ELSE Populate(NewDict(n), IF failAt = 0 THEN gs ELSE SubSeq(gs, 1, failAt - 1))

\* the descendant queries the call issues, in order
ClusteringQueries(cache, gs, failAt) ==
    IF ~MustCompute(cache) THEN <<>>
    ELSE IF failAt = 0 THEN gs ELSE SubSeq(gs, 1, failAt)

\* how the call ends: the error of the failing query propagates
ClusteringOutcome(cache, failAt) ==
    IF MustCompute(cache) /\ failAt # 0 THEN "QueryError" ELSE "ok"

----------------------------------------------------------------------------
(* State *)

Snapshot == [genes |-> genes, taxon |-> taxon, genome |-> genome,
             ancestral_clustering |-> ancestral_clustering, history |-> history]

\* the history of an ancestral genome whose clustering was never asked for
NoHistory == [invoked |-> FALSE, genes |-> <<>>, returned |-> FALSE]

\* the history after a call ending with outcome on a genome whose genes are gs
Remember(h, gs, outcome) ==
    [invoked |-> TRUE,
     genes |-> IF h.invoked THEN h.genes ELSE gs,
     returned |-> h.returned \/ outcome = "ok"]

\* the answers of the genes' is_singleton() when no call asks for them
NotAsked == [h \in GeneObjs |-> FALSE]

NoCall == [op |-> "init", self |-> None, arg |-> None, singleton |-> TRUE,
           is_singleton |-> NotAsked, exc |-> "ok", ret |-> 0, queries |-> <<>>]

Threads == {"t1", "t2"}

\* a thread that has not called yet
IdleThread == [pc |-> "idle", self |-> None, i |-> 0, computed |-> FALSE,
               ret |-> 0, retkeys |-> {}]

Init ==
    /\ genes = [g \in Genomes |-> <<>>]
    /\ taxon = [g \in Genomes |-> None]
    /\ genome = [h \in GeneObjs |-> None]
    /\ ancestral_clustering = [g \in AncestralGenomes |-> NoDict]
    /\ allocs = 0
    /\ added = [g \in Genomes |-> 0]
    /\ history = [g \in AncestralGenomes |-> NoHistory]
    /\ call = NoCall
    /\ pre = Snapshot
    /\ mode = "serialized"
    /\ threads = [t \in Threads |-> IdleThread]

\* the genes attached so far, over all genomes
RECURSIVE Attached(_)
Attached(gs) ==
    IF gs = {} THEN 0
    ELSE LET g == CHOOSE x \in gs : TRUE IN Len(genes[g]) + Attached(gs \ {g})

\* an add_gene that also drops the receiver's cached clustering
AddGeneInvalidating(g, x) ==
    /\ Attached(Genomes) < MaxGenes
    /\ genes' = [genes EXCEPT ![g] = AddGeneGenes(@, x)]
    /\ genome' = AddGeneBackrefs(genome, g, x)
    /\ call' = [NoCall EXCEPT !.op = "add_gene", !.self = g, !.arg = x,
                              !.exc = AddGeneOutcome(x)]
    /\ added' = [added EXCEPT ![g] = IF AddGeneOutcome(x) = "ok" THEN @ + 1 ELSE @]
    /\ ancestral_clustering' = [a \in AncestralGenomes |->
                                   IF a = g /\ AddGeneOutcome(x) = "ok" THEN NoDict
                                   ELSE ancestral_clustering[a]]
    /\ pre' = Snapshot
    /\ UNCHANGED <<taxon, allocs, history, mode, threads>>

\* g.add_gene(x)
AddGene(g, x) ==
    /\ Attached(Genomes) < MaxGenes
    /\ genes' = [genes EXCEPT ![g] = AddGeneGenes(@, x)]
    /\ genome' = AddGeneBackrefs(genome, g, x)
    /\ call' = [NoCall EXCEPT !.op = "add_gene", !.self = g, !.arg = x,
                              !.exc = AddGeneOutcome(x)]
    /\ added' = [added EXCEPT ![g] = IF AddGeneOutcome(x) = "ok" THEN @ + 1 ELSE @]
    /\ pre' = Snapshot
    /\ UNCHANGED <<taxon, ancestral_clustering, allocs, history, mode, threads>>

\* g.set_taxon(x)
SetTaxon(g, x) ==
    /\ taxon' = [taxon EXCEPT ![g] = IF SetTaxonOutcome(@, x) = "ok" THEN x ELSE @]
    /\ call' = [NoCall EXCEPT !.op = "set_taxon", !.self = g, !.arg = x,
                              !.exc = SetTaxonOutcome(taxon[g], x)]
    /\ pre' = Snapshot
    /\ UNCHANGED <<genes, genome, ancestral_clustering, allocs, added, history, mode, threads>>

\* g.get_number_genes() on an ancestral genome
GetNumberGenesAncestral(g) ==
    /\ call' = [NoCall EXCEPT !.op = "get_number_genes", !.self = g,
                              !.ret = AncestralGetNumberGenes(genes[g])]
    /\ pre' = Snapshot
    /\ UNCHANGED <<genes, taxon, genome, ancestral_clustering, allocs, added, history, mode, threads>>

\* g.get_number_genes(singleton) on an extant genome whose genes answer
\* is_singleton() by singletons
GetNumberGenesExtant(g, singleton, singletons) ==
    /\ singleton => singletons = NotAsked
    /\ call' = [NoCall EXCEPT !.op = "get_number_genes", !.self = g,
                              !.singleton = singleton,
                              !.is_singleton = singletons,
                              !.ret = ExtantGetNumberGenes(genes[g], singleton, singletons)]
    /\ pre' = Snapshot
    /\ UNCHANGED <<genes, taxon, genome, ancestral_clustering, allocs, added, history, mode, threads>>

\* g.get_ancestral_clustering(); the query of the failAt-th HOG raises
GetAncestralClustering(g, failAt) ==
    /\ MustCompute(ancestral_clustering[g]) \/ failAt = 0
    /\ MustCompute(ancestral_clustering[g]) => allocs < MaxAllocs
    /\ ancestral_clustering' =
           [ancestral_clustering EXCEPT ![g] = ClusteringCache(@, genes[g], failAt, allocs + 1)]
    /\ allocs' = IF MustCompute(ancestral_clustering[g]) THEN allocs + 1 ELSE allocs
    /\ call' = [NoCall EXCEPT !.op = "get_ancestral_clustering", !.self = g,
                              !.exc = ClusteringOutcome(ancestral_clustering[g], failAt),
                              !.ret = IF ClusteringOutcome(ancestral_clustering[g], failAt) = "ok"
                                      THEN ancestral_clustering'[g].id ELSE 0,
                              !.queries = ClusteringQueries(ancestral_clustering[g], genes[g], failAt)]
    /\ history' = [history EXCEPT ![g] =
                       Remember(@, genes[g], ClusteringOutcome(ancestral_clustering[g], failAt))]
    /\ pre' = Snapshot
    /\ UNCHANGED <<genes, taxon, genome, added, mode, threads>>

Next ==
    \/ \E g \in Genomes, x \in Objects : AddGene(g, x)
    \/ \E g \in Genomes, x \in Objects : SetTaxon(g, x)
    \/ \E g \in AncestralGenomes : GetNumberGenesAncestral(g)
    \/ \E g \in ExtantGenomes, singleton \in BOOLEAN, singletons \in [GeneObjs -> BOOLEAN] :
           GetNumberGenesExtant(g, singleton, singletons)
    \/ \E g \in AncestralGenomes : \E failAt \in 0..Len(genes[g]) :
           GetAncestralClustering(g, failAt)

Spec == Init /\ [][Next]_vars

----------------------------------------------------------------------------
(* get_ancestral_clustering run by several threads, statement by statement *)

\* the gene lists a genome can have been given by add_gene
GeneLists == UNION {[1..n -> GeneObjs] : n \in 0..MaxGenes}

\* for hog in self.genes: the list is exhausted
LoopDone(i, gs) == i > Len(gs)

\* no other thread is inside a call
NoneInside(t) == \A u \in Threads \ {t} : threads[u].pc \in {"idle", "returned", "raised"}

\* an ancestral genome holding some genes, its clustering not yet asked for
InitThreads ==
    /\ \E a \in AncestralGenomes, s \in GeneLists :
          /\ genes = [g \in Genomes |-> IF g = a THEN s ELSE <<>>]
          /\ genome = [h \in GeneObjs |-> IF h \in Range(s) THEN a ELSE None]
          /\ added = [g \in Genomes |-> IF g = a THEN Len(s) ELSE 0]
    /\ taxon = [g \in Genomes |-> None]
    /\ ancestral_clustering = [g \in AncestralGenomes |-> NoDict]
    /\ allocs = 0
    /\ history = [g \in AncestralGenomes |-> NoHistory]
    /\ call = NoCall
    /\ pre = Snapshot
    /\ mode \in {"serialized", "unlocked"}
    /\ threads = [t \in Threads |-> IdleThread]

\* line 102: the thread enters the call and tests the cache
ThreadCheck(t, g) ==
    /\ threads[t].pc = "idle"
    /\ mode = "serialized" => NoneInside(t)
    /\ threads' = [threads EXCEPT ![t].self = g,
                                  ![t].pc = IF MustCompute(ancestral_clustering[g])
                                            THEN "assign" ELSE "return"]
    /\ UNCHANGED <<genes, taxon, genome, ancestral_clustering, allocs, added, history,
                   call, pre, mode>>

\* line 103: self.ancestral_clustering = {}
ThreadAssign(t) ==
    /\ threads[t].pc = "assign"
    /\ allocs < MaxAllocs
    /\ ancestral_clustering' =
           [ancestral_clustering EXCEPT ![threads[t].self] = NewDict(allocs + 1)]
    /\ allocs' = allocs + 1
    /\ threads' = [threads EXCEPT ![t].pc = "loop", ![t].i = 1, ![t].computed = TRUE]
    /\ UNCHANGED <<genes, taxon, genome, added, history, call, pre, mode>>

\* line 105: one query and the entry it gives, stored in the dict that
\* self.ancestral_clustering refers to now; or the query raises
ThreadInsert(t, raises) ==
    LET g == threads[t].self
        hog == genes[g][threads[t].i]
    IN /\ threads[t].pc = "loop"
       /\ ~LoopDone(threads[t].i, genes[g])
       /\ IF raises
          THEN /\ threads' = [threads EXCEPT ![t].pc = "raised"]
               /\ UNCHANGED ancestral_clustering
          ELSE /\ ancestral_clustering' =
                      [ancestral_clustering EXCEPT
                          ![g] = DictSet(@, hog, get_all_descendant_genes(hog))]
               /\ threads' = [threads EXCEPT ![t].i = @ + 1]
       /\ UNCHANGED <<genes, taxon, genome, allocs, added, history, call, pre, mode>>

\* line 104: the loop ends
ThreadLoopEnd(t) ==
    /\ threads[t].pc = "loop"
    /\ LoopDone(threads[t].i, genes[threads[t].self])
    /\ threads' = [threads EXCEPT ![t].pc = "return"]
    /\ UNCHANGED <<genes, taxon, genome, ancestral_clustering, allocs, added, history,
                   call, pre, mode>>

\* line 106: return self.ancestral_clustering
ThreadReturn(t) ==
    /\ threads[t].pc = "return"
    /\ threads' = [threads EXCEPT
                      ![t].pc = "returned",
                      ![t].ret = ancestral_clustering[threads[t].self].id,
                      ![t].retkeys = DOMAIN ancestral_clustering[threads[t].self].map]
    /\ UNCHANGED <<genes, taxon, genome, ancestral_clustering, allocs, added, history,
                   call, pre, mode>>

NextThreads ==
    \/ \E t \in Threads, g \in AncestralGenomes : ThreadCheck(t, g)
    \/ \E t \in Threads : ThreadAssign(t)
    \/ \E t \in Threads, raises \in BOOLEAN : ThreadInsert(t, raises)
    \/ \E t \in Threads : ThreadLoopEnd(t)
    \/ \E t \in Threads : ThreadReturn(t)

SpecThreads == InitThreads /\ [][NextThreads]_vars

----------------------------------------------------------------------------
(* Properties *)

IsPrefix(s, t) == Len(s) <= Len(t) /\ SubSeq(t, 1, Len(s)) = s

\* C1: on a genome whose taxon is a node t1, set_taxon(t2) with t2 a node
\* other than t1 raises EvolutionaryConceptError and leaves taxon equal to t1.
C1_RebindToOtherNodeRaises ==
    (/\ call.op = "set_taxon"
     /\ pre.taxon[call.self] \in Nodes
     /\ call.arg \in Nodes
     /\ call.arg # pre.taxon[call.self])
    => /\ call.exc = "EvolutionaryConceptError"
       /\ taxon[call.self] = pre.taxon[call.self]

C1_Witness ==
    /\ call.op = "set_taxon"
    /\ pre.taxon[call.self] = "n1"
    /\ call.arg = "n2"
    /\ call.exc = "EvolutionaryConceptError"
    /\ taxon[call.self] = "n1"

C3_TaxonOneWay ==
    [][\A g \in Genomes :
          /\ taxon[g] # None => taxon'[g] = taxon[g]
          /\ taxon'[g] # taxon[g] =>
                /\ taxon[g] = None
                /\ call'.op = "set_taxon" /\ call'.self = g /\ call'.exc = "ok"
                /\ call'.arg \in Nodes /\ taxon'[g] = call'.arg]_vars

C3_Witness ==
    /\ call.op = "set_taxon"
    /\ call.arg = None
    /\ call.exc = "TypeError"
    /\ pre.taxon[call.self] = "n2"
    /\ taxon[call.self] = "n2"
    /\ genes[call.self] # <<>>

\* C4: add_gene(x) with x not a gene raises TypeError and changes neither
\* any genome's genes nor any gene's back-reference.
C4_AddNonGeneRaisesNoMutation ==
    (call.op = "add_gene" /\ call.arg \notin GeneObjs)
    => /\ call.exc = "TypeError"
       /\ genes = pre.genes
       /\ genome = pre.genome

C4_Witness ==
    /\ call.op = "add_gene"
    /\ call.arg = "n1"
    /\ call.exc = "TypeError"
    /\ Len(genes[call.self]) = 2
    /\ genes = pre.genes

\* C5: the call of get_ancestral_clustering that finds the cache None and
\* returns, returns a dict whose keys are exactly the genes attached then,
\* each mapped to its own descendant query's result; the queries are issued
\* in attachment order; with no genes the dict is empty.
C5_FirstCallBuildsClustering ==
    (/\ call.op = "get_ancestral_clustering"
     /\ IsNone(pre.ancestral_clustering[call.self])
     /\ call.exc = "ok")
    => LET d == ancestral_clustering[call.self]
           gs == pre.genes[call.self]
       IN /\ ~IsNone(d)
          /\ call.ret = d.id
          /\ DOMAIN d.map = Range(gs)
          /\ \A h \in Range(gs) : d.map[h] = get_all_descendant_genes(h)
          /\ call.queries = gs
          /\ gs = <<>> => DOMAIN d.map = {}

C5_Witness ==
    /\ call.op = "get_ancestral_clustering"
    /\ IsNone(pre.ancestral_clustering[call.self])
    /\ call.exc = "ok"
    /\ genes[call.self] = <<"h2", "h1">>
    /\ call.queries = <<"h2", "h1">>
    /\ ancestral_clustering[call.self].map["h1"] = <<"e1", "e2">>
    /\ ancestral_clustering[call.self].map["h2"] = <<"e3">>

\* C6: once a call of get_ancestral_clustering has returned, no operation
\* changes the cached dict (neither which object it is nor what it holds),
\* and every later call returns that same dict and issues no query, also
\* when add_gene has appended genes since: they are not in the dict.
C6_ClusteringMemoized ==
    \A g \in AncestralGenomes :
        pre.history[g].returned =>
            /\ ancestral_clustering[g] = pre.ancestral_clustering[g]
            /\ (call.op = "get_ancestral_clustering" /\ call.self = g) =>
                   /\ call.exc = "ok"
                   /\ call.ret = pre.ancestral_clustering[g].id
                   /\ call.ret # 0
                   /\ call.queries = <<>>

C6_Witness ==
    /\ call.op = "get_ancestral_clustering"
    /\ pre.history[call.self].returned
    /\ history[call.self].genes = <<"h1">>
    /\ DOMAIN ancestral_clustering[call.self].map = {"h1"}
    /\ genes[call.self] = <<"h1", "h2">>
    /\ call.ret = ancestral_clustering[call.self].id

\* C7: get_number_genes() with default arguments, on a genome of either
\* variant, returns len(genes), which is the number of add_gene calls on
\* that genome that returned normally (0 on a new genome).
C7_NumberGenesIsLen ==
    /\ \A g \in Genomes : Len(genes[g]) = added[g]
    /\ (call.op = "get_number_genes" /\ call.singleton) =>
           /\ call.ret = Len(genes[call.self])
           /\ call.ret = added[call.self]

C7_Witness ==
    /\ call.op = "get_number_genes"
    /\ call.singleton
    /\ call.self \in AncestralGenomes
    /\ genes[call.self] = <<"h1", "h1">>
    /\ call.ret = 2

\* C8: on an extant genome get_number_genes(singleton=False) is the number
\* of positions of genes whose gene answers is_singleton() false, and
\* get_number_genes(singleton=True) is len(genes); the first never exceeds
\* the second and both are 0 when genes is empty.
C8_SingletonExclusion ==
    (call.op = "get_number_genes" /\ call.self \in ExtantGenomes) =>
        LET gs == genes[call.self]
            nonSingletons == {i \in 1..Len(gs) : ~call.is_singleton[gs[i]]}
        IN /\ ~call.singleton => call.ret = Cardinality(nonSingletons)
           /\ call.singleton => call.ret = Len(gs)
           /\ call.ret <= Len(gs)
           /\ gs = <<>> => call.ret = 0

C8_Witness ==
    /\ call.op = "get_number_genes"
    /\ call.self \in ExtantGenomes
    /\ ~call.singleton
    /\ genes[call.self] = <<"h1", "h2", "h1">>
    /\ call.is_singleton["h2"] /\ ~call.is_singleton["h1"]
    /\ call.ret = 2

\* C9: genes only grows at its end: in every step the old genes of every
\* genome is a prefix of the new, and an add_gene(g) that returns normally
\* makes the receiver's genes the old one with g appended, and leaves the
\* other genomes' genes alone.
C9_GenesAppendOnly ==
    [][/\ \A g \in Genomes : IsPrefix(genes[g], genes'[g])
       /\ genes' # genes =>
             /\ call'.op = "add_gene" /\ call'.exc = "ok"
             /\ genes' = [genes EXCEPT ![call'.self] = Append(@, call'.arg)]]_vars

C9_Witness ==
    /\ call.op = "add_gene"
    /\ call.exc = "ok"
    /\ call.arg = "h2"
    /\ pre.genes[call.self] = <<"h1", "h1">>
    /\ genes[call.self] = <<"h1", "h1", "h2">>

\* C10: every gene is in the genes of at most one genome, and every gene in
\* the genes of a genome G has G as its back-reference.
C10_ExclusiveOwnership ==
    /\ \A h \in GeneObjs : Cardinality({g \in Genomes : h \in Range(genes[g])}) <= 1
    /\ \A g \in Genomes : \A h \in Range(genes[g]) : genome[h] = g

\* C11: set_taxon(x) with x not a tree node (None included) raises TypeError
\* on an unbound and on a bound genome and leaves taxon unchanged; on a
\* bound genome the outcome is never EvolutionaryConceptError.
C11_NonNodeRaisesTypeError ==
    (call.op = "set_taxon" /\ call.arg \notin Nodes)
    => /\ call.exc = "TypeError"
       /\ taxon = pre.taxon

C11_Witness ==
    /\ call.op = "set_taxon"
    /\ call.arg = "h1"
    /\ pre.taxon[call.self] = "n1"
    /\ call.exc = "TypeError"
    /\ taxon[call.self] = "n1"

C13_Frames ==
    /\ call.op \in {"set_taxon", "get_number_genes", "get_ancestral_clustering"} =>
           genes = pre.genes /\ genome = pre.genome
    /\ (genes # pre.genes \/ genome # pre.genome) => call.op = "add_gene"
    /\ call.op = "add_gene" =>
           taxon = pre.taxon /\ ancestral_clustering = pre.ancestral_clustering

C13_Witness ==
    /\ call.op = "add_gene"
    /\ call.exc = "ok"
    /\ call.self \in AncestralGenomes
    /\ taxon[call.self] = "n1"
    /\ ~IsNone(ancestral_clustering[call.self])
    /\ ancestral_clustering = pre.ancestral_clustering
    /\ genes # pre.genes

\* C15: a get_ancestral_clustering call that returns normally returns a
\* dict with an entry for every gene the genome had when the clustering was
\* first asked for, also when that first call ended with the error of a
\* descendant query.
C15_ReturnedClusteringComplete ==
    (call.op = "get_ancestral_clustering" /\ call.exc = "ok")
    => Range(history[call.self].genes)
          \subseteq DOMAIN ancestral_clustering[call.self].map

\* C16: the first get_ancestral_clustering call on an ancestral genome
\* built by add_gene calls, when it returns normally, returns a dict with
\* as many entries as get_number_genes() returns.
C16_EntriesEqualNumberGenes ==
    (/\ call.op = "get_ancestral_clustering"
     /\ ~pre.history[call.self].invoked
     /\ call.exc = "ok")
    => Cardinality(DOMAIN ancestral_clustering[call.self].map)
          = AncestralGetNumberGenes(genes[call.self])

\* a call has returned a dict that lacked an entry for a gene of genes
ReturnedIncomplete ==
    \E t \in Threads :
        /\ threads[t].pc = "returned"
        /\ ~(Range(genes[threads[t].self]) \subseteq threads[t].retkeys)

\* two calls have each created and filled a dict for the same genome
PopulatedTwice ==
    \E t, u \in Threads :
        /\ t # u
        /\ threads[t].computed /\ threads[u].computed
        /\ threads[t].self = threads[u].self

\* C14: when the calls of get_ancestral_clustering on a genome are
\* serialized, no call returns a dict lacking an entry for a gene of genes
\* and the dict is not populated twice.
C14_SerializedSafe ==
    mode = "serialized" => ~ReturnedIncomplete /\ ~PopulatedTwice

\* C14: without a lock, and with no query raising, the race is reached: a
\* call returns the dict while another call is still filling it.
C14_RaceReached ==
    /\ mode = "unlocked"
    /\ \A t \in Threads : threads[t].pc # "raised"
    /\ ReturnedIncomplete

\* C14: without a lock, and with no query raising, two calls both pass the
\* test of line 102 and each fills a dict of its own.
C14_PopulatedTwiceReached ==
    /\ mode = "unlocked"
    /\ \A t \in Threads : threads[t].pc = "returned"
    /\ PopulatedTwice
    /\ threads["t1"].ret # threads["t2"].ret

\* C14: with serialized calls of which no query raises, neither happens.
C14_SerializedSafeUnlessRaised ==
    (mode = "serialized" /\ \A t \in Threads : threads[t].pc # "raised")
    => ~ReturnedIncomplete /\ ~PopulatedTwice

====
